---- MODULE Spec2Model ----
(***************************************************************************)
(* Model of the pagination-and-retry engine of loc-images                  *)
(* (src/loc_images.py): get_loc_response_json under tenacity's @retry, and *)
(* the crawl loop of main.                                                 *)
(*                                                                         *)
(* Time is counted in quarter seconds, so that 60/80 s = 0.75 s is exact.  *)
(***************************************************************************)
EXTENDS Integers, Sequences, FiniteSets, TLC

VARIABLES
    pc,              \* position of main: "Fetching", "PageReady", "Exhausted", "Failed"
    total,           \* number of items in the server's result set (environment)
    cur_url,         \* main's cur_url: <<>> (no "sp" parameter) or <<sp>>
    url,             \* the url argument of the innermost get_loc_response_json call
    c,               \* client.params["c"], the shared results-per-page parameter
    attempt_number,  \* retry_state.attempt_number of the innermost retry loop
    depth,           \* nested get_loc_response_json calls made by splits in this fetch
    response,        \* what the last client.get returned or raised
    data,            \* the payload last returned to main
    emitted,         \* result lists handed to the per-result loop, in order
    error,           \* the exception that ended the crawl, if any
    reqs,            \* log of the HTTP requests issued
    slept,           \* time paused since the last request was issued
    nsleeps,         \* number of time.sleep calls made by main
    waits,           \* the waits tenacity slept in the innermost retry loop
    origin,          \* first request of the current page fetch
    retries          \* retryable failures so far in the crawl

vars == <<pc, total, cur_url, url, c, attempt_number, depth, response, data,
          emitted, error, reqs, slept, nsleeps, waits, origin, retries>>

----------------------------------------------------------------------------
(* Bounds of the model *)

\* pages of the starting size in the large result set; also the number of
\* pages one crawl may fetch
MaxPages == 3
\* the seed URL carries no "sp" or an "sp" in 1..MaxSeedSp
MaxSeedSp == 2
\* retryable failures in one crawl under Spec
MaxRetries == 2
\* the server resets connections only during the first MaxResetFetches page
\* fetches of a crawl
MaxResetFetches == 1
\* attempts of one retry loop under RetrySpec
MaxAttempts == 15

----------------------------------------------------------------------------
(* Program constants *)

Seconds(n) == 4 * n

SECONDS_PER_REQUEST_LIMIT == Seconds(60) \div 80

MAX_WAIT_RETRY_DELAY == Seconds(4096)

\* the starting page size doubled
STARTING_RESULTS_PER_PAGE_DOUBLED == 2 * 512

STARTING_RESULTS_PER_PAGE == 512

Min(a, b) == IF a < b THEN a ELSE b
Max(a, b) == IF a > b THEN a ELSE b

RECURSIVE Pow2(_)
Pow2(n) == IF n = 0 THEN 1 ELSE 2 * Pow2(n - 1)

----------------------------------------------------------------------------
(* tenacity: wait_exponential(min=SECONDS_PER_REQUEST_LIMIT,               *)
(*                            max=MAX_WAIT_RETRY_DELAY), multiplier 1,     *)
(* exp_base 2: max(max(0, min), min(multiplier * 2^(n-1), max))            *)

\* the exponent taken as the attempt number
wait_exponential_from_two(n) ==
    Max(Max(0, SECONDS_PER_REQUEST_LIMIT),
        Min(Seconds(1) * Pow2(n), MAX_WAIT_RETRY_DELAY))

\* the upper clamp left out
wait_exponential_unclamped(n) ==
    Max(Max(0, SECONDS_PER_REQUEST_LIMIT), Seconds(1) * Pow2(n - 1))

wait_exponential(n) ==
    Max(Max(0, SECONDS_PER_REQUEST_LIMIT),
        Min(Seconds(1) * Pow2(n - 1), MAX_WAIT_RETRY_DELAY))

----------------------------------------------------------------------------
(* URLs and the server *)

\* int(url.params.get("sp", 1))
SpParam(u) == IF u = <<>> THEN 1 ELSE u[1]

\* cur_page = int(url.params.get("sp", 1)) - 1
PageIndex(u) == SpParam(u) - 1

\* the page index taken for the one-based "sp"
SplitUrlOneBased(u) == <<SpParam(u) * 2 + 1>>

\* the new "sp" written zero-based
SplitUrlZeroBased(u) == <<PageIndex(u) * 2>>

\* new_page = cur_page * 2; new_url = url.copy_set_param("sp", str(new_page + 1))
SplitUrl(u) == <<PageIndex(u) * 2 + 1>>

\* the halved size computed but not written to client.params
SplitPageSizeNotStored(p) == p

\* new_results_per_page = cur_results_per_page // 2
SplitPageSize(p) == p \div 2

\* the parity check left out
UnsplittableNever(p) == FALSE

\* if cur_results_per_page % 2 != 0: raise
Unsplittable(p) == p % 2 # 0

\* The payload the API returns for page sp at page size cc of a result set
\* of T items: the items from offset (sp-1)*cc on, and the next-page URL.
ServerPage(cc, u, T) ==
    LET first == PageIndex(u) * cc
        count == IF first >= T THEN 0 ELSE Min(cc, T - first)
    IN  [first |-> first, count |-> count,
         has_next |-> first + cc < T, next |-> <<SpParam(u) + 1>>]

NoData == [first |-> 0, count |-> 0, has_next |-> FALSE, next |-> <<>>]

\* results = data["results"]
Results(d) == [first |-> d.first, count |-> d.count]

\* status codes the server may answer with
Statuses == {200, 204, 403, 404, 429, 500, 599}

\* 429 left out of the retryable statuses
RetryableStatus5xxOnly(s) == s \in 500..599

\* every 4xx taken as retryable
RetryableStatus4xx(s) == s \in 400..599

\* response.status_code == 429 or response.status_code in range(500, 600)
RetryableStatus(s) == s = 429 \/ s \in 500..599

\* response.status_code != httpx.codes.OK
NotOK(s) == s # 200

NoResponse == [exc |-> "none", status_code |-> 0, valid_json |-> FALSE]
NoError == [type |-> "none", msg_status |-> {}, at |-> 0]

\* the loop never breaks
MoreToFetchAlways(d) == TRUE

\* pagination["next"] taken as present when it is None
MoreToFetchInverted(d) == ~d.has_next

\* pagination["next"] is not None
MoreToFetch(d) == d.has_next

Totals == {MaxPages, STARTING_RESULTS_PER_PAGE * (MaxPages - 1) + 1}
SeedUrls == {<<>>} \cup {<<n>> : n \in 1..MaxSeedSp}

----------------------------------------------------------------------------
Init ==
    /\ pc = "Fetching"
    /\ total \in Totals
    /\ cur_url \in SeedUrls
    /\ url = cur_url
    /\ c = STARTING_RESULTS_PER_PAGE
    /\ attempt_number = 1
    /\ depth = 0
    /\ response = NoResponse
    /\ data = NoData
    /\ emitted = <<>>
    /\ error = NoError
    /\ reqs = <<>>
    /\ slept = 0
    /\ nsleeps = 0
    /\ waits = <<>>
    /\ origin = [c |-> c, sp |-> SpParam(cur_url)]
    /\ retries = 0

\* one retry state shared by all calls
NewCallAttemptCarried == attempt_number

\* tenacity: every call of the decorated function starts its own retry
\* state, at attempt number 1
NewCallAttempt == 1

\* client.get(url=url): the client's "c" is merged over the URL's query
Issue(verdict) ==
    /\ reqs' = Append(reqs, [c |-> c, sp |-> SpParam(url), gap |-> slept,
                             verdict |-> verdict, fetch |-> Len(emitted) + 1,
                             splits |-> depth, attempt |-> attempt_number])

\* a retry that shrinks the page as a connection reset does
RetryAfterWaitHalving ==
    /\ Issue("retryable")
    /\ c' = SplitPageSize(c)
    /\ slept' = wait_exponential(attempt_number)
    /\ waits' = Append(waits, wait_exponential(attempt_number))
    /\ attempt_number' = attempt_number + 1
    /\ retries' = retries + 1
    /\ UNCHANGED <<pc, total, cur_url, url, depth, data, emitted, error,
                   nsleeps, origin>>

\* the retry decorated with stop=stop_after_attempt(5)
RetryAfterWaitStopAfterFive ==
    IF attempt_number >= 5
    THEN /\ Issue("fatal")
         /\ pc' = "Failed"
         /\ error' = [type |-> "RetryError", msg_status |-> {},
                       at |-> Len(reqs) + 1]
         /\ slept' = 0
         /\ UNCHANGED <<total, cur_url, url, c, attempt_number, depth, data,
                        emitted, nsleeps, waits, origin, retries>>
    ELSE /\ Issue("retryable")
         /\ slept' = wait_exponential(attempt_number)
         /\ waits' = Append(waits, wait_exponential(attempt_number))
         /\ attempt_number' = attempt_number + 1
         /\ retries' = retries + 1
         /\ UNCHANGED <<pc, total, cur_url, url, c, depth, data, emitted,
                        error, nsleeps, origin>>

\* tenacity: the attempt raised RetryableHTTPException: sleep, then try again
RetryAfterWait ==
    /\ Issue("retryable")
    /\ slept' = wait_exponential(attempt_number)
    /\ waits' = Append(waits, wait_exponential(attempt_number))
    /\ attempt_number' = attempt_number + 1
    /\ retries' = retries + 1
    /\ UNCHANGED <<pc, total, cur_url, url, c, depth, data, emitted, error,
                   nsleeps, origin>>

\* an exception tenacity does not retry leaves get_loc_response_json and main
Raise(type, msg_status) ==
    /\ Issue("fatal")
    /\ pc' = "Failed"
    /\ error' = [type |-> type, msg_status |-> msg_status,
                  at |-> Len(reqs) + 1]
    /\ slept' = 0
    /\ UNCHANGED <<total, cur_url, url, c, attempt_number, depth, data,
                   emitted, nsleeps, waits, origin, retries>>

GetReadTimeout(limit) ==
    /\ pc = "Fetching"
    /\ limit
    /\ response' = [exc |-> "ReadTimeout", status_code |-> 0,
                     valid_json |-> FALSE]
    /\ RetryAfterWait

GetRetryableStatus(limit) ==
    /\ pc = "Fetching"
    /\ limit
    /\ \E s \in Statuses :
          /\ NotOK(s)
          /\ RetryableStatus(s)
          /\ response' = [exc |-> "none", status_code |-> s,
                           valid_json |-> FALSE]
    /\ RetryAfterWait

GetRemoteProtocolError ==
    /\ pc = "Fetching"
    /\ Len(emitted) < MaxResetFetches
    /\ response' = [exc |-> "RemoteProtocolError", status_code |-> 0,
                     valid_json |-> FALSE]
    /\ IF Unsplittable(c)
       THEN /\ Issue("reset")
            /\ pc' = "Failed"
            /\ error' = [type |-> "RemoteProtocolError", msg_status |-> {},
                          at |-> Len(reqs) + 1]
            /\ slept' = 0
            /\ UNCHANGED <<total, cur_url, url, c, attempt_number, depth, data,
                           emitted, nsleeps, waits, origin, retries>>
       ELSE /\ Issue("reset")
            /\ c' = SplitPageSize(c)
            /\ url' = SplitUrl(url)
            /\ depth' = depth + 1
            /\ attempt_number' = NewCallAttempt
            /\ waits' = <<>>
            /\ slept' = 0
            /\ UNCHANGED <<pc, total, cur_url, data, emitted, error, nsleeps,
                           origin, retries>>

GetFatalStatus ==
    /\ pc = "Fetching"
    /\ \E s \in Statuses :
          /\ NotOK(s)
          /\ ~RetryableStatus(s)
          /\ response' = [exc |-> "none", status_code |-> s,
                           valid_json |-> FALSE]
          /\ Raise("ClickException", {s})

GetMalformedBody ==
    /\ pc = "Fetching"
    /\ response' = [exc |-> "none", status_code |-> 200,
                     valid_json |-> FALSE]
    /\ Raise("JSONDecodeError", {})

GetConnectError ==
    /\ pc = "Fetching"
    /\ response' = [exc |-> "ConnectError", status_code |-> 0,
                     valid_json |-> FALSE]
    /\ Raise("ConnectError", {})

GetOK ==
    /\ pc = "Fetching"
    /\ Len(emitted) < MaxPages
    /\ response' = [exc |-> "none", status_code |-> 200,
                     valid_json |-> TRUE]
    /\ Issue("ok")
    /\ data' = ServerPage(c, url, total)
    /\ pc' = "PageReady"
    /\ slept' = 0
    /\ UNCHANGED <<total, cur_url, url, c, attempt_number, depth, emitted,
                   error, nsleeps, waits, origin, retries>>

\* main: the per-result loop, then the next cursor or the end of the crawl
ProcessPage ==
    /\ pc = "PageReady"
    /\ emitted' = Append(emitted, Results(data))
    /\ IF MoreToFetch(data)
       THEN /\ cur_url' = data.next
            /\ url' = data.next
            /\ slept' = slept + SECONDS_PER_REQUEST_LIMIT
            /\ nsleeps' = nsleeps + 1
            /\ pc' = "Fetching"
            /\ attempt_number' = NewCallAttempt
            /\ depth' = 0
            /\ waits' = <<>>
            /\ origin' = [c |-> c, sp |-> SpParam(data.next)]
       ELSE /\ pc' = "Exhausted"
            /\ UNCHANGED <<cur_url, url, slept, nsleeps, attempt_number,
                           depth, waits, origin>>
    /\ UNCHANGED <<total, c, response, data, error, reqs, retries>>

Next ==
    \/ GetOK
    \/ GetReadTimeout(retries < MaxRetries)
    \/ GetRetryableStatus(retries < MaxRetries)
    \/ GetRemoteProtocolError
    \/ GetFatalStatus
    \/ GetMalformedBody
    \/ GetConnectError
    \/ ProcessPage

Spec == Init /\ [][Next]_vars

\* Every retry loop followed as far as the ceiling of the wait, on a server
\* that never resets the connection
RetryNext ==
    \/ GetOK
    \/ GetReadTimeout(attempt_number < MaxAttempts)
    \/ GetRetryableStatus(attempt_number < MaxAttempts)
    \/ GetFatalStatus
    \/ GetMalformedBody
    \/ GetConnectError
    \/ ProcessPage

RetrySpec == Init /\ [][RetryNext]_vars

\* A crawl of the small result set on a server that fails only in ways the
\* engine recovers from: retryable failures, and connection resets while the
\* page size can still be halved. Every request is eventually answered 200
\* (weak fairness of GetOK), and main goes on after each payload.
GetSplittableReset ==
    /\ ~Unsplittable(c)
    /\ GetRemoteProtocolError

LiveInit ==
    /\ Init
    /\ total = MaxPages

LiveNext ==
    \/ GetOK
    \/ GetReadTimeout(retries < MaxRetries)
    \/ GetRetryableStatus(retries < MaxRetries)
    \/ GetSplittableReset
    \/ ProcessPage

LiveSpec ==
    /\ LiveInit
    /\ [][LiveNext]_vars
    /\ WF_vars(GetOK)
    /\ WF_vars(ProcessPage)

----------------------------------------------------------------------------
(* Vocabulary of the properties *)

RECURSIVE IsPowerOfTwo(_)
IsPowerOfTwo(n) ==
    IF n <= 1 THEN n = 1 ELSE n % 2 = 0 /\ IsPowerOfTwo(n \div 2)

\* zero-based page index and absolute item offset of a logged request
IndexOf(r) == r.sp - 1
OffsetOf(r) == IndexOf(r) * r.c

\* the page size and page index in force after request i: those of request
\* i + 1 when it has been issued, else those the next request will carry
SizeAfter(i) == IF i < Len(reqs) THEN reqs[i + 1].c ELSE c
IndexAfter(i) == IF i < Len(reqs) THEN IndexOf(reqs[i + 1]) ELSE PageIndex(url)

SplitLaw(i) ==
    /\ 2 * SizeAfter(i) = reqs[i].c
    /\ IndexAfter(i) = 2 * IndexOf(reqs[i])
    /\ IndexOf(reqs[i]) * reqs[i].c = IndexAfter(i) * SizeAfter(i)

----------------------------------------------------------------------------
\* C1 (as stated): for every page size P that is a power of two and every page
\* index I >= 0, a connection reset yields newP = P/2, newIndex = 2*I and
\* I*P = newIndex*newP.
C1_SplitLawEveryPowerOfTwo ==
    \A i \in 1..Len(reqs) :
        (reqs[i].verdict = "reset" /\ IsPowerOfTwo(reqs[i].c)) => SplitLaw(i)

\* C1 (amended): for every page size P >= 2 that is a power of two and every
\* page index I >= 0, a connection reset yields newP = P/2, newIndex = 2*I
\* (re-issued sp = 2*I + 1) and I*P = newIndex*newP.
C1_SplitLaw ==
    \A i \in 1..Len(reqs) :
        (reqs[i].verdict = "reset" /\ IsPowerOfTwo(reqs[i].c) /\ reqs[i].c >= 2)
            => /\ SplitLaw(i)
               /\ i < Len(reqs) => reqs[i + 1].sp = 2 * IndexOf(reqs[i]) + 1

\* a split at a page index > 0 whose request has been re-issued
C1_Witness ==
    \E i \in 1..Len(reqs) :
        /\ reqs[i].verdict = "reset"
        /\ reqs[i].c >= 2
        /\ IndexOf(reqs[i]) >= 1
        /\ i < Len(reqs)

----------------------------------------------------------------------------
\* C2: within the fetch of one page every request issued, whatever resets and
\* retryable failures came before it, addresses the absolute item offset
\* originally requested: after k splits from (P, I) it is at
\* (P / 2^k, I * 2^k).
C2_OffsetPreserved ==
    \A i \in 1..Len(reqs) :
        reqs[i].fetch = Len(emitted) + 1 =>
            /\ OffsetOf(reqs[i]) = OffsetOf(origin)
            /\ reqs[i].c * Pow2(reqs[i].splits) = origin.c
            /\ IndexOf(reqs[i]) = IndexOf(origin) * Pow2(reqs[i].splits)

\* a backoff retry issued after two splits of a page at an index > 0
C2_Witness ==
    \E i \in 2..Len(reqs) :
        /\ reqs[i].fetch = Len(emitted) + 1
        /\ reqs[i].splits >= 2
        /\ reqs[i].attempt >= 2
        /\ reqs[i - 1].verdict = "retryable"
        /\ IndexOf(origin) >= 1

----------------------------------------------------------------------------
\* C3: a connection reset received while the page size is odd is fatal: no
\* request follows the one that triggered it, the shared page size is left
\* unchanged and the crawl is Failed.
C3_OddSplitFatal ==
    \A i \in 1..Len(reqs) :
        (reqs[i].verdict = "reset" /\ reqs[i].c % 2 # 0) =>
            /\ i = Len(reqs)
            /\ pc = "Failed"
            /\ c = reqs[i].c
            /\ error.type = "RemoteProtocolError"
            /\ error.at = i

\* the crawl has failed on a reset at an odd page size
C3_Witness ==
    /\ pc = "Failed"
    /\ error.type = "RemoteProtocolError"
    /\ reqs[Len(reqs)].verdict = "reset"
    /\ reqs[Len(reqs)].c % 2 # 0

----------------------------------------------------------------------------
\* C4 (as stated): the wait after failed attempt n of a retry loop is
\* min(4096 s, 0.75 s * 2^(n-1)), the waits never decrease, and attempt 1 is
\* preceded by no wait.
C4_WaitIsFloorTimesPowerOfTwo ==
    /\ Len(waits) = attempt_number - 1
    /\ \A n \in 1..Len(waits) :
          waits[n] = Min(Seconds(4096), SECONDS_PER_REQUEST_LIMIT * Pow2(n - 1))
    /\ \A n \in 2..Len(waits) : waits[n - 1] <= waits[n]

\* C4 (amended): the wait after failed attempt n of a retry loop is
\* min(4096 s, 2^(n-1) s), that is 1, 2, 4, ... seconds up to the ceiling (the
\* floor of 0.75 s is a lower clamp that never binds), the waits never
\* decrease, and attempt 1 is preceded by no wait of the retry loop (only by
\* main's sleep between pages).
C4_WaitSequence ==
    /\ Len(waits) = attempt_number - 1
    /\ \A n \in 1..Len(waits) :
          waits[n] = Min(Seconds(4096), Seconds(1) * Pow2(n - 1))
    /\ \A n \in 2..Len(waits) : waits[n - 1] <= waits[n]
    /\ \A i \in 1..Len(reqs) :
          reqs[i].gap =
              IF reqs[i].attempt > 1
              THEN Min(Seconds(4096), Seconds(1) * Pow2(reqs[i].attempt - 2))
              ELSE IF i = 1 THEN 0 ELSE SECONDS_PER_REQUEST_LIMIT

\* a retry loop that has reached the ceiling and stayed there
C4_Witness ==
    /\ Len(waits) >= 14
    /\ waits[13] = Seconds(4096)
    /\ waits[14] = Seconds(4096)

----------------------------------------------------------------------------
NoFailureSoFar == \A i \in 1..Len(reqs) : reqs[i].verdict = "ok"

\* the payload the server returned to logged request i
PayloadOf(i) == ServerPage(reqs[i].c, <<reqs[i].sp>>, total)

\* C5: a crawl without failures issues one request per page, each request
\* after the first at the `next` URL of the previous payload, hands the
\* pages' results to the emitter in page order with none missing or repeated,
\* and sleeps exactly once between consecutive requests and not after the
\* last page.
C5_NoFailureCrawl ==
    NoFailureSoFar =>
        /\ Len(reqs) = Len(emitted) + (IF pc = "PageReady" THEN 1 ELSE 0)
        /\ \A i \in 2..Len(reqs) :
              /\ PayloadOf(i - 1).has_next
              /\ <<reqs[i].sp>> = PayloadOf(i - 1).next
              /\ reqs[i].gap = SECONDS_PER_REQUEST_LIMIT
        /\ \A k \in 1..Len(emitted) : emitted[k] = Results(PayloadOf(k))
        /\ \A k \in 2..Len(emitted) :
              emitted[k].first = emitted[k - 1].first + emitted[k - 1].count
        /\ nsleeps = Len(emitted) - (IF pc = "Exhausted" THEN 1 ELSE 0)
        /\ pc = "Exhausted" =>
              /\ ~PayloadOf(Len(reqs)).has_next
              /\ nsleeps = Len(reqs) - 1
              /\ emitted[1].first = OffsetOf(reqs[1])
              /\ emitted[1].first < total =>
                    emitted[Len(emitted)].first + emitted[Len(emitted)].count
                        = total

\* a three-page crawl without failures has ended
C5_Witness ==
    /\ NoFailureSoFar
    /\ pc = "Exhausted"
    /\ Len(emitted) = 3
    /\ emitted[3].count = 1

----------------------------------------------------------------------------
\* the result lists a crawl without failures emits from page size cc and URL u
RECURSIVE NoFailureCrawl(_, _, _)
NoFailureCrawl(cc, u, T) ==
    LET d == ServerPage(cc, u, T)
    IN  <<Results(d)>> \o (IF MoreToFetch(d) THEN NoFailureCrawl(cc, d.next, T)
                                             ELSE <<>>)

OnlyFirstRequestReset ==
    /\ Len(reqs) >= 2
    /\ reqs[1].verdict = "reset"
    /\ \A i \in 2..Len(reqs) : reqs[i].verdict = "ok"

\* C6: a crawl whose first request is reset and whose other requests all
\* succeed emits the same results in the same order as a crawl without
\* failures started at the halved page size and the doubled page index.
C6_SplitEquivalence ==
    (pc = "Exhausted" /\ OnlyFirstRequestReset) =>
        emitted = NoFailureCrawl(reqs[1].c \div 2,
                                 <<2 * IndexOf(reqs[1]) + 1>>, total)

\* such a crawl, started at page index 1, has ended after three pages
C6_Witness ==
    /\ pc = "Exhausted"
    /\ OnlyFirstRequestReset
    /\ IndexOf(reqs[1]) >= 1
    /\ Len(emitted) >= 3

----------------------------------------------------------------------------
RetryableOutcome(r) ==
    \/ r.exc = "ReadTimeout"
    \/ /\ r.exc = "none"
       /\ r.status_code = 429 \/ (r.status_code >= 500 /\ r.status_code <= 599)

FatalStatusOutcome(r) ==
    /\ r.exc = "none"
    /\ r.status_code \in Statuses \ {200}
    /\ ~RetryableOutcome(r)

MalformedOutcome(r) ==
    r.exc = "none" /\ r.status_code = 200 /\ ~r.valid_json

OkRequests == {i \in 1..Len(reqs) : reqs[i].verdict = "ok"}

\* C7: after any number of retryable failures (read timeout, 429, 5xx) and a
\* 200 on the same page request, exactly the successful payload is handed to
\* the emitter for that page, nothing of the failed attempts is emitted, and
\* the crawl is not Failed.
C7_RetriesRecovered ==
    /\ \A i \in OkRequests :
          /\ \A j \in OkRequests : reqs[j].fetch = reqs[i].fetch => j = i
          /\ reqs[i].fetch <= Len(emitted) =>
                emitted[reqs[i].fetch] = Results(PayloadOf(i))
    /\ Len(emitted) =
          Cardinality(OkRequests) - (IF pc = "PageReady" THEN 1 ELSE 0)
    /\ RetryableOutcome(response) => pc = "Fetching"
    /\ (response.status_code = 200 /\ response.valid_json) => pc # "Failed"

\* a page emitted after thirteen retryable failures of its request
C7_Witness ==
    \E i \in OkRequests :
        /\ reqs[i].attempt >= 14
        /\ reqs[i].fetch <= Len(emitted)
        /\ pc # "Failed"

----------------------------------------------------------------------------
\* C8 (as stated): a fatal outcome (a status other than 200, 429 or 5xx; or a
\* 200 with a malformed body) is never retried, no request follows it, and
\* the crawl is Failed with an error that references the status code.
C8_FatalReferencesStatus ==
    (FatalStatusOutcome(response) \/ MalformedOutcome(response)) =>
        /\ pc = "Failed"
        /\ error.at = Len(reqs)
        /\ error.msg_status = {response.status_code}

\* C8 (amended): a fatal outcome is never retried, no request follows it, and
\* the crawl is Failed; the error references the status code when the
\* outcome is a fatal status, and is the JSON decoding error, which names no
\* status, when the body of a 200 is malformed.
C8_FatalNotRetried ==
    /\ FatalStatusOutcome(response) =>
          /\ pc = "Failed"
          /\ error.type = "ClickException"
          /\ error.msg_status = {response.status_code}
    /\ MalformedOutcome(response) =>
          /\ pc = "Failed"
          /\ error.type = "JSONDecodeError"
          /\ error.msg_status = {}
    /\ pc = "Failed" => error.at = Len(reqs)
    /\ \A i \in 1..Len(reqs) :
          reqs[i].verdict = "fatal" => (i = Len(reqs) /\ pc = "Failed")

\* the crawl has failed on a 403 of the second page's request
C8_Witness ==
    /\ pc = "Failed"
    /\ response.status_code = 403
    /\ error.msg_status = {403}
    /\ Len(emitted) >= 1

----------------------------------------------------------------------------
\* C9: between any two consecutive requests of a crawl (next page, retry, or
\* re-issue after a split) the engine pauses for at least the floor of 0.75 s.
C9_MinimumSpacing ==
    \A i \in 2..Len(reqs) : reqs[i].gap >= SECONDS_PER_REQUEST_LIMIT

----------------------------------------------------------------------------
\* a payload without `next` has been processed, or an exception has ended
\* the crawl
TerminalReached ==
    \/ pc \in {"Exhausted", "Failed"}
    \/ error # NoError
    \/ Len(emitted) > 0 /\ pc # "PageReady" /\ ~data.has_next

\* C10: Exhausted and Failed are terminal: once either is reached no request
\* is issued and no sleep or backoff wait is performed.
C10_TerminalQuiet ==
    [][TerminalReached =>
          (reqs' = reqs /\ nsleeps' = nsleeps /\ slept' = slept /\ waits' = waits)]_vars

\* a crawl of several pages has reached Exhausted
C10_Witness ==
    /\ pc = "Exhausted"
    /\ nsleeps >= 1
    /\ Len(reqs) > Len(emitted)

----------------------------------------------------------------------------
\* the items of a list of result lists, when the lists follow one another
\* without gap or overlap: the half-open range [from, to)
Contiguous(pages) ==
    \A k \in 2..Len(pages) :
        pages[k].first = pages[k - 1].first + pages[k - 1].count

ItemsEnd(pages) == pages[Len(pages)].first + pages[Len(pages)].count

\* what the crawl of the seed URL emits when no request fails
FailureFreeOutput ==
    NoFailureCrawl(STARTING_RESULTS_PER_PAGE, <<reqs[1].sp>>, total)

\* C11: when a crawl ends in Failed while fetching page k, the pages fetched
\* before it have each been handed to the emitter exactly once and in page
\* order: the items emitted are a prefix of the items of the failure-free
\* crawl.
C11_FailedOutputIsPrefix ==
    pc = "Failed" =>
        /\ Len(emitted) = Cardinality(OkRequests)
        /\ Len(emitted) = reqs[Len(reqs)].fetch - 1
        /\ \A i \in OkRequests : emitted[reqs[i].fetch] = Results(PayloadOf(i))
        /\ Contiguous(emitted)
        /\ Len(emitted) > 0 =>
              /\ emitted[1].first = FailureFreeOutput[1].first
              /\ ItemsEnd(emitted) <= ItemsEnd(FailureFreeOutput)

\* a crawl that split its first page has failed while fetching its third
C11_Witness ==
    /\ pc = "Failed"
    /\ Len(emitted) = 2
    /\ emitted[1].first > 0
    /\ \E i \in 1..Len(reqs) : reqs[i].verdict = "reset"

----------------------------------------------------------------------------
\* the requests before request i that were reset at a splittable page size
SplitsBefore(i) ==
    {j \in 1..(i - 1) : reqs[j].verdict = "reset" /\ reqs[j].c % 2 = 0}

\* C12: the shared page size is never reverted: it never increases over a
\* crawl, it changes only by a split, and the value a split wrote is the
\* page size of every later request, those for subsequent pages included.
C12_PageSizeNeverReverted ==
    /\ Len(reqs) > 0 => reqs[1].c = STARTING_RESULTS_PER_PAGE
    /\ \A i \in 1..Len(reqs) :
          /\ SizeAfter(i) =
                IF reqs[i].verdict = "reset" /\ reqs[i].c % 2 = 0
                THEN reqs[i].c \div 2
                ELSE reqs[i].c
          /\ SizeAfter(i) <= reqs[i].c
          /\ c <= reqs[i].c

\* a later page requested at the page size two splits of the first page left
C12_Witness ==
    \E i \in 1..Len(reqs) :
        /\ reqs[i].fetch >= 2
        /\ Cardinality(SplitsBefore(i)) >= 2
        /\ reqs[i].c < STARTING_RESULTS_PER_PAGE

----------------------------------------------------------------------------
\* C13: in every reachable state of a crawl started at page size 512 the
\* shared page size is a power of two, one of 512, 256, ..., 2, 1.
C13_PageSizePowerOfTwo ==
    /\ IsPowerOfTwo(c)
    /\ c >= 1
    /\ c <= STARTING_RESULTS_PER_PAGE
    /\ \A i \in 1..Len(reqs) : IsPowerOfTwo(reqs[i].c)

\* the page size has been split down to 1
C13_Witness ==
    /\ c = 1
    /\ pc = "Fetching"

----------------------------------------------------------------------------
\* C14: the retry loop has no maximum attempt count: no number of
\* consecutive retryable failures moves the crawl to Failed; after each one
\* the request is attempted again, and the wait stays at the ceiling once it
\* has reached it.
C14_UnboundedRetry ==
    /\ RetryableOutcome(response) =>
          /\ pc = "Fetching"
          /\ error = NoError
          /\ reqs[Len(reqs)].verdict = "retryable"
          /\ attempt_number = reqs[Len(reqs)].attempt + 1
    /\ \A i \in 1..(Len(reqs) - 1) :
          reqs[i].verdict = "retryable" =>
              /\ reqs[i + 1].attempt = reqs[i].attempt + 1
              /\ reqs[i + 1].fetch = reqs[i].fetch
              /\ reqs[i + 1].sp = reqs[i].sp
    /\ \A n \in 1..Len(waits) : \A m \in n..Len(waits) :
          waits[n] = MAX_WAIT_RETRY_DELAY => waits[m] = MAX_WAIT_RETRY_DELAY

\* fourteen consecutive failures of one request, the fifteenth attempt due
C14_Witness ==
    /\ RetryableOutcome(response)
    /\ attempt_number >= 15
    /\ pc = "Fetching"
    /\ waits[Len(waits)] = MAX_WAIT_RETRY_DELAY
    /\ waits[Len(waits) - 1] = MAX_WAIT_RETRY_DELAY

----------------------------------------------------------------------------
\* C15: every backoff wait of the retry policy, for every attempt number
\* n >= 1, lies between the floor (0.75 s) and the ceiling (4096 s).
C15_WaitWithinBounds ==
    /\ \A n \in 1..Len(waits) :
          /\ waits[n] >= SECONDS_PER_REQUEST_LIMIT
          /\ waits[n] <= MAX_WAIT_RETRY_DELAY
    /\ \A i \in 1..Len(reqs) :
          reqs[i].attempt > 1 =>
              /\ reqs[i].gap >= SECONDS_PER_REQUEST_LIMIT
              /\ reqs[i].gap <= MAX_WAIT_RETRY_DELAY

\* a retry loop whose waits run from the first, 1 s, up to the ceiling, and
\* whose exponential term has passed the ceiling
C15_Witness ==
    /\ Len(waits) >= 14
    /\ waits[1] = Seconds(1)
    /\ waits[Len(waits)] = MAX_WAIT_RETRY_DELAY
    /\ Seconds(1) * Pow2(Len(waits) - 1) > MAX_WAIT_RETRY_DELAY

----------------------------------------------------------------------------
\* C16: only a split mutates the request state: an attempt that ends in a
\* read timeout, a 429, a 5xx, a fatal status or a success leaves the shared
\* page size unchanged, and the retry after a retryable failure is issued
\* with the same URL and page index.
C16_OnlySplitMutates ==
    \A i \in 1..Len(reqs) :
        /\ reqs[i].verdict # "reset" => SizeAfter(i) = reqs[i].c
        /\ reqs[i].verdict = "retryable" =>
              /\ IndexAfter(i) = IndexOf(reqs[i])
              /\ i < Len(reqs) =>
                    /\ reqs[i + 1].sp = reqs[i].sp
                    /\ reqs[i + 1].c = reqs[i].c
                    /\ reqs[i + 1].splits = reqs[i].splits

\* a retry issued after a split, at a page index > 0, and a later success
C16_Witness ==
    \E i \in 1..(Len(reqs) - 1) :
        /\ reqs[i].verdict = "retryable"
        /\ reqs[i].splits >= 1
        /\ reqs[i].sp > 1
        /\ reqs[Len(reqs)].verdict = "ok"

----------------------------------------------------------------------------
\* the first request of a call of get_loc_response_json: the first of the
\* crawl, the one after a success (next page) or after a split (re-issue)
StartsRetryLoop(i) ==
    i = 1 \/ reqs[i - 1].verdict \in {"ok", "reset"}

\* C19: backoff state is per retry loop: the request for each new page and
\* the request re-issued after a split start at attempt number 1, and their
\* first retry waits the first-retry wait, however many retries earlier
\* requests of the crawl needed.
C19_BackoffPerLoop ==
    /\ \A i \in 1..Len(reqs) :
          /\ StartsRetryLoop(i) => reqs[i].attempt = 1
          /\ reqs[i].attempt = 2 => reqs[i].gap = Seconds(1)
    /\ (pc = "Fetching" /\ StartsRetryLoop(Len(reqs) + 1)) =>
          (attempt_number = 1 /\ waits = <<>>)

\* a first retry after a split and one for a later page, each after an
\* earlier request had been retried
C19_Witness ==
    \E i \in 1..Len(reqs) : \E j \in (i + 2)..Len(reqs) :
        /\ reqs[i].attempt = 2
        /\ reqs[j].attempt = 2
        /\ reqs[j].gap = Seconds(1)
        /\ reqs[j].fetch > reqs[i].fetch \/ reqs[j].splits > reqs[i].splits

----------------------------------------------------------------------------
\* C18: across a whole crawl started at page size 512 at most 9 splits
\* succeed, so the depth of nested re-requests never exceeds 9: a connection
\* reset received while the page size is 1 is fatal, and the page size never
\* reaches 0.
C18_AtMostNineSplits ==
    /\ Cardinality(SplitsBefore(Len(reqs) + 1)) <= 9
    /\ depth <= 9
    /\ c >= 1
    /\ \A i \in 1..Len(reqs) :
          (reqs[i].verdict = "reset" /\ reqs[i].c = 1) =>
              (pc = "Failed" /\ i = Len(reqs) /\ c = 1)

\* nine nested re-requests, and the reset of the last one has ended the crawl
C18_Witness ==
    /\ depth = 9
    /\ Cardinality(SplitsBefore(Len(reqs) + 1)) = 9
    /\ reqs[Len(reqs)].verdict = "reset"
    /\ reqs[Len(reqs)].c = 1
    /\ pc = "Failed"

----------------------------------------------------------------------------
\* C17: when the chain of `next` cursors is finite and every request is in
\* the end answered 200 with a valid body, after finitely many retryable
\* failures and connection resets that leave the page size splittable, the
\* crawl eventually reaches Exhausted.
C17_EventuallyExhausted == <>(pc = "Exhausted")

\* a crawl has reached Exhausted after retries, nine splits and three pages
C17_Witness ==
    /\ pc = "Exhausted"
    /\ retries >= 2
    /\ c = 1
    /\ Len(emitted) >= 3

====
